---- MODULE Spec2Model ----
(***************************************************************************)
(* A model of pyrivet/rivet.py: the encoders of the engine's input files,  *)
(* the parsers of its output (bounds, Betti numbers, barcode slices) and   *)
(* the staging directory the engine is run in.                             *)
(*                                                                         *)
(* Text is a sequence of one-character strings, so that strip, split,      *)
(* slicing and the number conversions are computed as the code computes    *)
(* them.  A number read from text (Fraction, float) is an exact rational   *)
(* <<numerator, denominator>> in lowest terms.                             *)
(***************************************************************************)
EXTENDS Integers, Sequences, FiniteSets, TLC

(***************************************************************************)
(* Bounds of the model.                                                    *)
(***************************************************************************)
MaxBettiInput == 6
MaxBoundsLines == 4
MaxCoord == 1
MaxPoints == 3
MaxDim == 1
MaxN == 3
MaxEntry == 1
MaxSliceLines == 4
MaxOps == 2

(***************************************************************************)
(* The state: one group of variables per function of the program.  Each    *)
(* specification below runs one function and leaves the other groups idle. *)
(***************************************************************************)
VARIABLES
    \* _parse_betti: its locals, the line just read, the number of lines read,
    \* and the section grammar of the text read so far (g_*)
    x_grades, y_grades, current_grades, xi, current_xi,
    b_pc, b_exc, b_n, b_line, g_sect, g_x, g_y, g_xi,
    \* parse_bounds: the lines read, its locals, the Bounds returned
    pb_text, low, high, pb_pc, pb_exc, pb_result,
    \* Bounds.common_bounds: the operands before the calls (cb_a0, cb_b0) and
    \* now, the third operand and the results of the calls
    cb_a0, cb_b0, cb_a, cb_b, cb_c, cb_ab, cb_ba, cb_l, cb_r, cb_pc,
    \* PointCloud.__init__: the arguments, the exception and its message,
    \* the fields
    pc_points, pc_arg, pc_pc, pc_exc, pc_msg, pc_dimension, pc_max_dist,
    \* MetricSpace.save: the fields, the stream, the row to write
    ms_matrix, ms_appearance, ms_comment, ms_out, ms_pc, ms_row, ms_exc,
    \* _parse_slices: the lines read, the list built
    sl_text, slices, sl_pc, sl_exc,
    \* the operations that stage files in a TempDir: the operation and its
    \* arguments, the with-blocks entered, the position in the innermost one,
    \* the directories and files on disk, the exception in flight, what the
    \* current operation did so far, the directories failed operations left
    td_op, td_verify, td_empty, td_stack, td_pc, td_dirs, td_files, td_exc,
    td_next, td_count, td_log, td_kept

bettiVars == <<x_grades, y_grades, current_grades, xi, current_xi,
               b_pc, b_exc, b_n, b_line, g_sect, g_x, g_y, g_xi>>
boundsVars == <<pb_text, low, high, pb_pc, pb_exc, pb_result>>
commonVars == <<cb_a0, cb_b0, cb_a, cb_b, cb_c, cb_ab, cb_ba, cb_l, cb_r, cb_pc>>
cloudVars == <<pc_points, pc_arg, pc_pc, pc_exc, pc_msg, pc_dimension, pc_max_dist>>
metricVars == <<ms_matrix, ms_appearance, ms_comment, ms_out, ms_pc, ms_row, ms_exc>>
sliceVars == <<sl_text, slices, sl_pc, sl_exc>>

tempVars == <<td_op, td_verify, td_empty, td_stack, td_pc, td_dirs, td_files,
              td_exc, td_next, td_count, td_log, td_kept>>

vars == <<bettiVars, boundsVars, commonVars, cloudVars, metricVars, sliceVars,
          tempVars>>

BettiIdle ==
    /\ x_grades = <<>> /\ y_grades = <<>> /\ current_grades = "none"
    /\ xi = <<>> /\ current_xi = -1 /\ b_pc = "idle" /\ b_exc = "none"
    /\ b_n = 0 /\ b_line = <<>> /\ g_sect = "out" /\ g_x = <<>> /\ g_y = <<>>
    /\ g_xi = <<>>

BoundsIdle ==
    /\ pb_text = <<>> /\ low = <<>> /\ high = <<>> /\ pb_pc = "idle"
    /\ pb_exc = "none" /\ pb_result = "None"

CommonIdle ==
    /\ cb_a0 = "None" /\ cb_b0 = "None" /\ cb_a = "None" /\ cb_b = "None"
    /\ cb_c = "None" /\ cb_ab = "None" /\ cb_ba = "None" /\ cb_l = "None"
    /\ cb_r = "None" /\ cb_pc = "idle"

CloudIdle ==
    /\ pc_points = <<>> /\ pc_arg = "None" /\ pc_pc = "idle" /\ pc_exc = "none"
    /\ pc_msg = <<>> /\ pc_dimension = "None" /\ pc_max_dist = "None"

MetricIdle ==
    /\ ms_matrix = <<>> /\ ms_appearance = <<>> /\ ms_comment = <<>>
    /\ ms_out = <<>> /\ ms_pc = "idle" /\ ms_row = 0 /\ ms_exc = "none"

SliceIdle ==
    /\ sl_text = <<>> /\ slices = <<>> /\ sl_pc = "idle" /\ sl_exc = "none"

\* no operation started, nothing on disk
TempIdle ==
    /\ td_op = "none" /\ td_verify = FALSE /\ td_empty = FALSE /\ td_stack = <<>>
    /\ td_pc = "idle" /\ td_dirs = {} /\ td_files = {} /\ td_exc = "none"
    /\ td_next = 1 /\ td_count = 0 /\ td_log = <<>> /\ td_kept = {}

(***************************************************************************)
(* Text primitives: bytes.strip, startswith, split, int, float, Fraction.  *)
(***************************************************************************)
IsSpace(c) == c \in {" ", "\t"}

RECURSIVE LStrip(_)
LStrip(s) ==
    IF s = <<>> THEN s
    ELSE IF IsSpace(Head(s)) THEN LStrip(Tail(s)) ELSE s

RECURSIVE RStrip(_)
RStrip(s) ==
    IF s = <<>> THEN s
    ELSE IF IsSpace(s[Len(s)]) THEN RStrip(SubSeq(s, 1, Len(s) - 1)) ELSE s

Strip(s) == RStrip(LStrip(s))

StartsWith(s, p) == Len(s) >= Len(p) /\ SubSeq(s, 1, Len(p)) = p

\* s[k:] of Python (k counted from 0)
From(s, k) == SubSeq(s, k + 1, Len(s))

\* s.split(c): the pieces between the occurrences of c, empty pieces kept
RECURSIVE Split(_, _)
Split(s, c) ==
    IF \A i \in 1..Len(s) : s[i] # c THEN <<s>>
    ELSE LET k == CHOOSE i \in 1..Len(s) :
                     s[i] = c /\ \A j \in 1..(i - 1) : s[j] # c
         IN  <<SubSeq(s, 1, k - 1)>> \o Split(SubSeq(s, k + 1, Len(s)), c)

Digits == {"0", "1", "2", "3", "4", "5", "6", "7", "8", "9"}

DigitVal(c) ==
    CASE c = "0" -> 0 [] c = "1" -> 1 [] c = "2" -> 2 [] c = "3" -> 3
      [] c = "4" -> 4 [] c = "5" -> 5 [] c = "6" -> 6 [] c = "7" -> 7
      [] c = "8" -> 8 [] c = "9" -> 9

AllDigits(s) == \A i \in 1..Len(s) : s[i] \in Digits

RECURSIVE DigitsVal(_)
DigitsVal(s) ==
    IF s = <<>> THEN 0
    ELSE DigitsVal(SubSeq(s, 1, Len(s) - 1)) * 10 + DigitVal(s[Len(s)])

RECURSIVE Pow10(_)
Pow10(k) == IF k = 0 THEN 1 ELSE 10 * Pow10(k - 1)

Abs(n) == IF n < 0 THEN -n ELSE n

RECURSIVE Gcd(_, _)
Gcd(a, b) == IF b = 0 THEN a ELSE Gcd(b, a % b)

\* the rational n/d (d > 0) in lowest terms
Rat(n, d) == LET g == Gcd(Abs(n), d) IN <<n \div g, d \div g>>

HasSign(s) == s # <<>> /\ Head(s) \in {"-", "+"}

Unsigned(s) == IF HasSign(s) THEN Tail(s) ELSE s

SignOf(s) == IF s # <<>> /\ Head(s) = "-" THEN -1 ELSE 1

\* int(s): surrounding white space and a sign are accepted, then digits only
ParseInt(s) ==
    LET t == Strip(s)
        u == Unsigned(t)
    IN  IF u # <<>> /\ AllDigits(u)
        THEN [exc |-> "none", val |-> SignOf(t) * DigitsVal(u)]
        ELSE [exc |-> "ValueError", val |-> 0]

\* the decimal forms float(s) and Fraction(s) share: 12, 1.5, 1., .5
ParseDecimal(s) ==
    LET t == Strip(s)
        u == Unsigned(t)
        p == Split(u, ".")
    IN  IF Len(p) = 1 /\ u # <<>> /\ AllDigits(u)
        THEN [exc |-> "none", val |-> Rat(SignOf(t) * DigitsVal(u), 1)]
        ELSE IF Len(p) = 2 /\ AllDigits(p[1]) /\ AllDigits(p[2])
                /\ (p[1] # <<>> \/ p[2] # <<>>)
        THEN [exc |-> "none",
              val |-> Rat(SignOf(t) * (DigitsVal(p[1]) * Pow10(Len(p[2]))
                                        + DigitsVal(p[2])),
                          Pow10(Len(p[2])))]
        ELSE [exc |-> "ValueError", val |-> <<0, 1>>]

ParseFloat(s) == ParseDecimal(s)

\* fractions.Fraction(s): a decimal, or numerator/denominator
ParseFraction(s) ==
    LET t == Strip(s)
        u == Unsigned(t)
        p == Split(u, "/")
    IN  IF Len(p) = 2
        THEN IF p[1] # <<>> /\ AllDigits(p[1]) /\ p[2] # <<>> /\ AllDigits(p[2])
             THEN IF DigitsVal(p[2]) = 0
                  THEN [exc |-> "ZeroDivisionError", val |-> <<0, 1>>]
                  ELSE [exc |-> "none",
                        val |-> Rat(SignOf(t) * DigitsVal(p[1]), DigitsVal(p[2]))]
             ELSE [exc |-> "ValueError", val |-> <<0, 1>>]
        ELSE ParseDecimal(s)

\* the values of a list of conversion results, or the first exception
RECURSIVE Collect(_)
Collect(rs) ==
    IF rs = <<>> THEN [exc |-> "none", val |-> <<>>]
    ELSE LET h == Head(rs)
         IN  IF h.exc # "none" THEN [exc |-> h.exc, val |-> <<>>]
             ELSE LET r == Collect(Tail(rs))
                  IN  IF r.exc # "none" THEN r
                      ELSE [exc |-> "none", val |-> <<h.val>> \o r.val]

\* map(int, parts)
MapInt(parts) == Collect([i \in 1..Len(parts) |-> ParseInt(parts[i])])

\* map(float, parts)
MapFloat(parts) == Collect([i \in 1..Len(parts) |-> ParseFloat(parts[i])])

(***************************************************************************)
(* _parse_betti                                                            *)
(***************************************************************************)
KwXGrades == <<"x", "-", "g", "r", "a", "d", "e", "s">>
KwYGrades == <<"y", "-", "g", "r", "a", "d", "e", "s">>
KwXi == <<"x", "i", "_">>
XiHeader(n) == KwXi \o <<CASE n = 0 -> "0" [] n = 1 -> "1" [] n = 2 -> "2">>

GradeLines == { <<"1", "/", "2">>, <<" ", "2">> }
TripleLines == { <<"(", "0", ",", "0", ",", "1", ")">>,
                 <<"(", "1", ",", "2", ",", "3", ")">> }
BlankLines == { <<>>, <<" ", " ">> }
HeaderLines == { KwXGrades, KwYGrades, XiHeader(0), XiHeader(1), XiHeader(2) }
OddLines == { <<"x", "i", "_", "3">>, <<"x", "i", "_">>,
              <<"x", "i", "_", "0", "z">>, <<"j", "u", "n", "k">> }
BettiLines == GradeLines \cup TripleLines \cup BlankLines \cup HeaderLines
                  \cup OddLines

\* tuple(map(int, line[1:-1].split(',')))
ParseTuple(line) == MapInt(Split(SubSeq(line, 2, Len(line) - 1), ","))

\* line[3] then int(...) then xi[...]
XiIndex(line) ==
    IF Len(line) < 4 THEN [exc |-> "IndexError", val |-> 0]
    ELSE IF line[4] \notin Digits THEN [exc |-> "ValueError", val |-> 0]
    ELSE IF DigitVal(line[4]) > 2 THEN [exc |-> "IndexError", val |-> 0]
    ELSE [exc |-> "none", val |-> DigitVal(line[4])]

\* a blank line that leaves the grade list current
BettiBlankKeepsGrades(st) == [st EXCEPT !.current_xi = -1]

\* elif line is None: both pointers are reset
BettiBlank(st) == [st EXCEPT !.current_grades = "none", !.current_xi = -1]

\* a last branch that refuses a line nothing reads
BettiOtherStrict(st, line) ==
    IF st.current_xi # -1
    THEN LET t == ParseTuple(line)
         IN  IF t.exc # "none" THEN [st EXCEPT !.exc = t.exc]
             ELSE [st EXCEPT !.xi[st.current_xi + 1] = Append(@, t.val)]
    ELSE [st EXCEPT !.exc = "ValueError"]

\* the last branch: a line for the current xi list, or a line nothing reads
BettiOther(st, line) ==
    IF st.current_xi # -1
    THEN LET t == ParseTuple(line)
         IN  IF t.exc # "none" THEN [st EXCEPT !.exc = t.exc]
             ELSE [st EXCEPT !.xi[st.current_xi + 1] = Append(@, t.val)]
    ELSE st

\* One pass of the loop body over the parser's locals, for the raw line.
BettiStep(st, raw) ==
    LET line == Strip(raw)
    IN  IF line = KwXGrades THEN [st EXCEPT !.current_grades = "x"]
        ELSE IF line = KwYGrades THEN [st EXCEPT !.current_grades = "y"]
        ELSE IF line = <<>> THEN BettiBlank(st)
        ELSE IF st.current_grades # "none"
        THEN LET f == ParseFraction(line)
             IN  IF f.exc # "none" THEN [st EXCEPT !.exc = f.exc]
                 ELSE IF st.current_grades = "x"
                 THEN [st EXCEPT !.x_grades = Append(@, f.val)]
                 ELSE [st EXCEPT !.y_grades = Append(@, f.val)]
        ELSE IF StartsWith(line, KwXi)
        THEN LET n == XiIndex(line)
             IN  IF n.exc # "none" THEN [st EXCEPT !.exc = n.exc]
                 ELSE [st EXCEPT !.current_xi = n.val]
        ELSE BettiOther(st, line)

BettiLocalsAtStart ==
    [x_grades |-> <<>>, y_grades |-> <<>>, current_grades |-> "none",
     xi |-> <<<<>>, <<>>, <<>>>>, current_xi |-> -1, exc |-> "none"]

BettiLocals ==
    [x_grades |-> x_grades, y_grades |-> y_grades,
     current_grades |-> current_grades, xi |-> xi, current_xi |-> current_xi,
     exc |-> b_exc]

\* the whole function on a finished text: the locals at the return, or at the raise
RECURSIVE BettiRun(_, _)
BettiRun(st, text) ==
    IF text = <<>> \/ st.exc # "none" THEN st
    ELSE BettiRun(BettiStep(st, Head(text)), Tail(text))

\* The section grammar of well-formed input: a header, its data lines, a blank
\* line.  g_sect is the section the text read so far is in ("out": between
\* sections, "bad": not well-formed); g_x, g_y, g_xi are the data lines of the
\* sections so far, as values.
SectOfHeader(line) ==
    CASE line = KwXGrades -> "x" [] line = KwYGrades -> "y"
      [] line = XiHeader(0) -> "0" [] line = XiHeader(1) -> "1"
      [] line = XiHeader(2) -> "2" [] OTHER -> "bad"

IsGradeData(line) == line \in { Strip(l) : l \in GradeLines }
IsTripleData(line) == line \in { Strip(l) : l \in TripleLines }

GrammarSect(sect, raw) ==
    LET line == Strip(raw)
    IN  CASE sect = "bad" -> "bad"
          [] sect = "out" -> SectOfHeader(line)
          [] sect \in {"x", "y"} ->
                IF line = <<>> THEN "out"
                ELSE IF IsGradeData(line) THEN sect ELSE "bad"
          [] OTHER ->
                IF line = <<>> THEN "out"
                ELSE IF IsTripleData(line) THEN sect ELSE "bad"

XiNo(sect) == CASE sect = "0" -> 1 [] sect = "1" -> 2 [] sect = "2" -> 3

BettiInit ==
    /\ x_grades = <<>>
    /\ y_grades = <<>>
    /\ current_grades = "none"
    /\ xi = <<<<>>, <<>>, <<>>>>
    /\ current_xi = -1
    /\ b_pc = "loop"
    /\ b_exc = "none"
    /\ b_n = 0
    /\ b_line = <<>>
    /\ g_sect = "out"
    /\ g_x = <<>>
    /\ g_y = <<>>
    /\ g_xi = <<<<>>, <<>>, <<>>>>

\* the loop reads the next line of the text
ParseBettiLine ==
    /\ b_pc = "loop"
    /\ b_n < MaxBettiInput
    /\ \E raw \in BettiLines :
          LET st == BettiStep(BettiLocals, raw)
              line == Strip(raw)
              data == g_sect \notin {"out", "bad"} /\ GrammarSect(g_sect, raw) = g_sect
          IN  /\ b_line' = raw
              /\ x_grades' = st.x_grades
              /\ y_grades' = st.y_grades
              /\ current_grades' = st.current_grades
              /\ xi' = st.xi
              /\ current_xi' = st.current_xi
              /\ b_exc' = st.exc
              /\ b_pc' = IF st.exc # "none" THEN "raised" ELSE "loop"
              /\ g_sect' = GrammarSect(g_sect, raw)
              /\ g_x' = IF data /\ g_sect = "x"
                        THEN Append(g_x, ParseFraction(line).val) ELSE g_x
              /\ g_y' = IF data /\ g_sect = "y"
                        THEN Append(g_y, ParseFraction(line).val) ELSE g_y
              /\ g_xi' = IF data /\ g_sect \in {"0", "1", "2"}
                         THEN [g_xi EXCEPT ![XiNo(g_sect)] =
                                   Append(@, ParseTuple(line).val)]
                         ELSE g_xi
    /\ b_n' = b_n + 1
    /\ UNCHANGED <<boundsVars, commonVars, cloudVars, metricVars, sliceVars, tempVars>>

\* the text is exhausted: return MultiBetti(Dimensions(x_grades, y_grades), *xi)
ReturnBetti ==
    /\ b_pc = "loop"
    /\ b_pc' = "returned"
    /\ UNCHANGED <<x_grades, y_grades, current_grades, xi, current_xi,
                   b_exc, b_n, b_line, g_sect, g_x, g_y, g_xi>>
    /\ UNCHANGED <<boundsVars, commonVars, cloudVars, metricVars, sliceVars, tempVars>>

BettiNext == ParseBettiLine \/ ReturnBetti

\* SpecBetti starts with the other functions idle
BettiStart ==
    /\ BettiInit
    /\ TempIdle
    /\ BoundsIdle
    /\ CommonIdle
    /\ CloudIdle
    /\ MetricIdle
    /\ SliceIdle

SpecBetti == BettiStart /\ [][BettiNext]_vars

(***************************************************************************)
(* parse_bounds                                                            *)
(***************************************************************************)
KwLow == <<"l", "o", "w", ":">>
KwHigh == <<"h", "i", "g", "h", ":">>

LowA == <<"l", "o", "w", ":", " ", "1", ".", "0", ",", "2", ".", "0">>
HighA == <<"h", "i", "g", "h", ":", " ", "3", ".", "0", ",", "4", ".", "0">>
LowB == <<" ", "l", "o", "w", ":", " ", "5", ",", "6", " ">>
HighB == <<"h", "i", "g", "h", ":", " ", "7", ",", "8", ".", "5">>

BoundsLines ==
    { LowA, HighA, LowB, HighB, <<>>, <<"j", "u", "n", "k">>,
      <<"l", "o", "w", ":", " ", "x">>, <<"l", "o", "w", ":", "1", ",", "2">> }

\* tuple(map(float, line[k:].split(",")))
ParseCorner(line, k) == MapFloat(Split(From(line, k), ","))

\* a scan that keeps the first 'low:' line it meets
PbLowFirstWins(st, line) ==
    IF StartsWith(line, KwLow) /\ st.low = <<<<0, 1>>, <<0, 1>>>>
    THEN LET c == ParseCorner(line, 5)
         IN  IF c.exc # "none" THEN [st EXCEPT !.exc = c.exc]
             ELSE [st EXCEPT !.low = c.val]
    ELSE st

\* if line.startswith('low:'): ...
PbLow(st, line) ==
    IF StartsWith(line, KwLow)
    THEN LET c == ParseCorner(line, 5)
         IN  IF c.exc # "none" THEN [st EXCEPT !.exc = c.exc]
             ELSE [st EXCEPT !.low = c.val]
    ELSE st

\* if line.startswith('high:'): ...
PbHigh(st, line) ==
    IF StartsWith(line, KwHigh)
    THEN LET c == ParseCorner(line, 6)
         IN  IF c.exc # "none" THEN [st EXCEPT !.exc = c.exc]
             ELSE [st EXCEPT !.high = c.val]
    ELSE st

\* one pass of the loop body
PbStep(st, raw) ==
    LET line == Strip(raw)
        a == PbLow(st, line)
    IN  IF a.exc # "none" THEN a ELSE PbHigh(a, line)

\* low = (0, 0); high = (0, 0)
ZeroCorner == <<<<0, 1>>, <<0, 1>>>>

ParseBoundsInit ==
    /\ pb_text = <<>>
    /\ low = ZeroCorner
    /\ high = ZeroCorner
    /\ pb_pc = "loop"
    /\ pb_exc = "none"
    /\ pb_result = "None"

ParseBoundsLine ==
    /\ pb_pc = "loop"
    /\ Len(pb_text) < MaxBoundsLines
    /\ \E raw \in BoundsLines :
          LET st == PbStep([low |-> low, high |-> high, exc |-> pb_exc], raw)
          IN  /\ pb_text' = Append(pb_text, raw)
              /\ low' = st.low
              /\ high' = st.high
              /\ pb_exc' = st.exc
              /\ pb_pc' = IF st.exc # "none" THEN "raised" ELSE "loop"
    /\ UNCHANGED pb_result
    /\ UNCHANGED <<bettiVars, commonVars, cloudVars, metricVars, sliceVars, tempVars>>
\* return Bounds(low, high)
ReturnBounds ==
    /\ pb_pc = "loop"
    /\ pb_pc' = "returned"
    /\ pb_result' = [lower_left |-> low, upper_right |-> high]
    /\ UNCHANGED <<pb_text, low, high, pb_exc>>
    /\ UNCHANGED <<bettiVars, commonVars, cloudVars, metricVars, sliceVars, tempVars>>
ParseBoundsNext == ParseBoundsLine \/ ReturnBounds

\* SpecParseBounds starts with the other functions idle
ParseBoundsStart ==
    /\ ParseBoundsInit
    /\ TempIdle
    /\ BettiIdle
    /\ CommonIdle
    /\ CloudIdle
    /\ MetricIdle
    /\ SliceIdle

SpecParseBounds == ParseBoundsStart /\ [][ParseBoundsNext]_vars

(***************************************************************************)
(* Bounds.common_bounds                                                    *)
(***************************************************************************)
\* min(a, b), max(a, b) of Python: the first argument unless the second is
\* strictly smaller (larger)
Min(a, b) == IF b < a THEN b ELSE a
Max(a, b) == IF b > a THEN b ELSE a

Coords == 0..MaxCoord

BoundsSet == [lower_left : Coords \X Coords, upper_right : Coords \X Coords]

\* a common_bounds that takes the upper right y from the x coordinates
CommonBoundsWrongIndex(self, other) ==
    [self |-> self, other |-> other,
     result |->
        [lower_left |-> <<Min(self.lower_left[1], other.lower_left[1]),
                          Min(self.lower_left[2], other.lower_left[2])>>,
         upper_right |-> <<Max(self.upper_right[1], other.upper_right[1]),
                           Max(self.upper_right[1], other.upper_right[1])>>]]

\* self.common_bounds(other): the two operands after the call, and the new
\* Bounds returned
CommonBounds(self, other) ==
    [self |-> self, other |-> other,
     result |->
        [lower_left |-> <<Min(self.lower_left[1], other.lower_left[1]),
                          Min(self.lower_left[2], other.lower_left[2])>>,
         upper_right |-> <<Max(self.upper_right[1], other.upper_right[1]),
                           Max(self.upper_right[2], other.upper_right[2])>>]]

CommonInit ==
    /\ cb_a0 \in BoundsSet
    /\ cb_b0 \in BoundsSet
    /\ cb_a = cb_a0
    /\ cb_b = cb_b0
    /\ cb_c = "None"
    /\ cb_ab = "None"
    /\ cb_ba = "None"
    /\ cb_l = "None"
    /\ cb_r = "None"
    /\ cb_pc = "start"

\* ab = a.common_bounds(b)
CallAB ==
    /\ cb_pc = "start"
    /\ LET r == CommonBounds(cb_a, cb_b)
       IN  cb_ab' = r.result /\ cb_a' = r.self /\ cb_b' = r.other
    /\ cb_pc' = "ab"
    /\ UNCHANGED <<cb_a0, cb_b0, cb_c, cb_ba, cb_l, cb_r>>
    /\ UNCHANGED <<bettiVars, boundsVars, cloudVars, metricVars, sliceVars, tempVars>>
\* ba = b.common_bounds(a)
CallBA ==
    /\ cb_pc = "ab"
    /\ LET r == CommonBounds(cb_b, cb_a)
       IN  cb_ba' = r.result /\ cb_b' = r.self /\ cb_a' = r.other
    /\ cb_pc' = "ba"
    /\ UNCHANGED <<cb_a0, cb_b0, cb_c, cb_ab, cb_l, cb_r>>
    /\ UNCHANGED <<bettiVars, boundsVars, cloudVars, metricVars, sliceVars, tempVars>>
\* l = ab.common_bounds(c); r = a.common_bounds(b.common_bounds(c))
CallChain ==
    /\ cb_pc = "ba"
    /\ \E c \in BoundsSet :
          LET l  == CommonBounds(cb_ab, c)
              bc == CommonBounds(cb_b, l.other)
              r  == CommonBounds(cb_a, bc.result)
          IN  /\ cb_l' = l.result
              /\ cb_r' = r.result
              /\ cb_ab' = l.self
              /\ cb_a' = r.self
              /\ cb_b' = bc.self
              /\ cb_c' = bc.other
    /\ cb_pc' = "done"
    /\ UNCHANGED <<cb_a0, cb_b0, cb_ba>>
    /\ UNCHANGED <<bettiVars, boundsVars, cloudVars, metricVars, sliceVars, tempVars>>
CommonNext == CallAB \/ CallBA \/ CallChain

\* SpecCommonBounds starts with the other functions idle
CommonBoundsStart ==
    /\ CommonInit
    /\ TempIdle
    /\ BettiIdle
    /\ BoundsIdle
    /\ CloudIdle
    /\ MetricIdle
    /\ SliceIdle

SpecCommonBounds == CommonBoundsStart /\ [][CommonNext]_vars

(***************************************************************************)
(* PointCloud.__init__ and _calc_max_dist                                  *)
(***************************************************************************)
CoordVals == {-3, -1, 2}

SeqsUpTo(S, n) == UNION { [1..k -> S] : k \in 0..n }

\* points(tuples, appearance=0)
PointSet == { [appearance |-> 0, coords |-> c] : c \in SeqsUpTo(CoordVals, MaxDim) }

\* the max_dist argument: <<>> is None, <<v>> the number v
MaxDistArgs == { <<>>, <<0>>, <<7>> }

Dimension(p) == Len(p.coords)

\* the loop of lines 41-45 from position i (counted from 1): the first
\* position whose point has another dimension, 0 when the loop ends
RECURSIVE FirstMismatch(_, _, _)
FirstMismatch(points, dimension, i) ==
    IF i > Len(points) THEN 0
    ELSE IF Dimension(points[i]) # dimension THEN i
    ELSE FirstMismatch(points, dimension, i + 1)

\* for p in self.points: for coord in p.coords: ...
RECURSIVE AllCoords(_)
AllCoords(points) ==
    IF points = <<>> THEN <<>> ELSE Head(points).coords \o AllCoords(Tail(points))

RECURSIVE CalcLoop(_, _, _)
CalcLoop(coords, lo, hi) ==
    IF coords = <<>> THEN Abs(hi - lo)
    ELSE LET coord == Head(coords)
             lo2 == IF coord < lo THEN coord ELSE lo
             hi2 == IF coord > hi THEN coord ELSE hi
         IN  CalcLoop(Tail(coords), lo2, hi2)

CalcMaxDist(points) == CalcLoop(AllCoords(points), 0, 0)

\* max_dist or self._calc_max_dist()
MaxDistOr(arg, points) ==
    IF arg # <<>> /\ arg[1] # 0 THEN arg[1] ELSE CalcMaxDist(points)

\* a check that goes on to the last point of another dimension
RECURSIVE LastMismatch(_, _, _)
LastMismatch(points, dimension, i) ==
    IF i > Len(points) THEN 0
    ELSE LET later == LastMismatch(points, dimension, i + 1)
         IN  IF later # 0 THEN later
             ELSE IF Dimension(points[i]) # dimension THEN i ELSE 0

CheckDimensionsToTheEnd(points, dimension) == LastMismatch(points, dimension, 1)

\* for i, p in enumerate(points): if p.dimension != self.dimension: raise
CheckDimensions(points, dimension) == FirstMismatch(points, dimension, 1)

\* the constructor: the exception and its (dimension, position, dimension)
\* message, or the fields
PointCloudNew(points, arg) ==
    IF points = <<>>
    THEN [exc |-> "IndexError", msg |-> <<>>, dimension |-> 0, max_dist |-> 0]
    ELSE LET dimension == Dimension(points[1])
             bad == CheckDimensions(points, dimension)
         IN  IF bad # 0
             THEN [exc |-> "ValueError",
                   msg |-> <<dimension, bad - 1, Dimension(points[bad])>>,
                   dimension |-> dimension, max_dist |-> 0]
             ELSE [exc |-> "none", msg |-> <<>>, dimension |-> dimension,
                   max_dist |-> MaxDistOr(arg, points)]

CloudInit ==
    /\ pc_points \in SeqsUpTo(PointSet, MaxPoints)
    /\ pc_arg \in MaxDistArgs
    /\ pc_pc = "new"
    /\ pc_exc = "none"
    /\ pc_msg = <<>>
    /\ pc_dimension = 0
    /\ pc_max_dist = 0

\* PointCloud(points, max_dist=arg)
Construct ==
    /\ pc_pc = "new"
    /\ LET r == PointCloudNew(pc_points, pc_arg)
       IN  /\ pc_exc' = r.exc
           /\ pc_msg' = r.msg
           /\ pc_dimension' = r.dimension
           /\ pc_max_dist' = r.max_dist
           /\ pc_pc' = IF r.exc = "none" THEN "constructed" ELSE "raised"
    /\ UNCHANGED <<pc_points, pc_arg>>
    /\ UNCHANGED <<bettiVars, boundsVars, commonVars, metricVars, sliceVars, tempVars>>
CloudNext == Construct

\* SpecPointCloud starts with the other functions idle
PointCloudStart ==
    /\ CloudInit
    /\ TempIdle
    /\ BettiIdle
    /\ BoundsIdle
    /\ CommonIdle
    /\ MetricIdle
    /\ SliceIdle

SpecPointCloud == PointCloudStart /\ [][CloudNext]_vars

(***************************************************************************)
(* MetricSpace.save                                                        *)
(***************************************************************************)
NL == <<"\n">>

DigitChar(d) ==
    CASE d = 0 -> "0" [] d = 1 -> "1" [] d = 2 -> "2" [] d = 3 -> "3"
      [] d = 4 -> "4" [] d = 5 -> "5" [] d = 6 -> "6" [] d = 7 -> "7"
      [] d = 8 -> "8" [] d = 9 -> "9"

\* str(n) of an integer
RECURSIVE NatToStr(_)
NatToStr(n) == IF n < 10 THEN <<DigitChar(n)>>
               ELSE NatToStr(n \div 10) \o <<DigitChar(n % 10)>>

IntToStr(n) == IF n < 0 THEN <<"-">> \o NatToStr(-n) ELSE NatToStr(n)

\* '{:f}'.format(v) of an integer v: six decimals
FormatF(v) == IntToStr(v) \o <<".", "0", "0", "0", "0", "0", "0">>

RECURSIVE Concat(_)
Concat(ss) == IF ss = <<>> THEN <<>> ELSE Head(ss) \o Concat(Tail(ss))

\* sep.join(ss)
RECURSIVE Join(_, _)
Join(sep, ss) ==
    IF ss = <<>> THEN <<>>
    ELSE IF Len(ss) = 1 THEN ss[1]
    ELSE Head(ss) \o sep \o Join(sep, Tail(ss))

\* comment.replace('\n', '\n#')
RECURSIVE ReplaceNL(_)
ReplaceNL(t) ==
    IF t = <<>> THEN <<>>
    ELSE IF Head(t) = "\n" THEN <<"\n", "#">> \o ReplaceNL(Tail(t))
    ELSE <<Head(t)>> \o ReplaceNL(Tail(t))

AppearanceLabel == <<"a">>
DistanceLabel == <<"d">>

SquareMatrices == UNION { [1..n -> [1..n -> 0..MaxEntry]] : n \in 0..MaxN }

\* [self.distance_matrix[i][j] for i in range(dim) for j in range(dim)]
AllEntries(m) ==
    [k \in 1..(Len(m) * Len(m)) |->
        m[((k - 1) \div Len(m)) + 1][((k - 1) % Len(m)) + 1]]

\* max(*args): no argument and a single number are both a TypeError
MaxOfArgs(args) ==
    IF Len(args) <= 1 THEN [exc |-> "TypeError", val |-> 0]
    ELSE [exc |-> "none",
          val |-> CHOOSE v \in {args[k] : k \in 1..Len(args)} :
                     \A k \in 1..Len(args) : args[k] <= v]

\* the text written up to the distance label (lines 119-130); an optional
\* field is <<>> for None and <<v>> for the value v
HeaderText(comment, appearance, m) ==
    <<"m", "e", "t", "r", "i", "c">> \o NL
    \o (IF comment # <<>> THEN <<"#">> \o ReplaceNL(comment[1]) \o NL ELSE <<>>)
    \o (IF appearance # <<>>
        THEN AppearanceLabel \o NL
             \o Join(<<" ">>, [k \in 1..Len(appearance[1]) |->
                                   FormatF(appearance[1][k]) \o <<" ">>]) \o NL
        ELSE <<"n", "o", " ", "f", "u", "n", "c", "t", "i", "o", "n">> \o NL
             \o IntToStr(Len(m)) \o NL)
    \o DistanceLabel \o NL

\* the text of row `row` (counted from 0): for col in range(row + 1, dim)
RowText(m, row) ==
    Concat([k \in 1..(Len(m) - row - 1) |->
               FormatF(m[row + 1][row + 1 + k]) \o <<" ">>])
    \o NL

MetricInit ==
    /\ ms_matrix \in SquareMatrices
    /\ ms_appearance \in {<<>>, <<[k \in 1..Len(ms_matrix) |-> k]>>}
    /\ ms_comment \in {<<>>, <<<<"x", "\n", "y">>>>}
    /\ ms_out \in {<<>>, <<"o", "l", "d">> \o NL}
    /\ ms_pc = "start"
    /\ ms_row = 0
    /\ ms_exc = "none"

\* out.seek(0); out.truncate(); the writes up to the distance label
SaveHeader ==
    /\ ms_pc = "start"
    /\ ms_out' = HeaderText(ms_comment, ms_appearance, ms_matrix)
    /\ ms_pc' = "max"
    /\ UNCHANGED <<ms_matrix, ms_appearance, ms_comment, ms_row, ms_exc>>
    /\ UNCHANGED <<bettiVars, boundsVars, commonVars, cloudVars, sliceVars, tempVars>>
\* max_dist = max(*[...]); out.write('{:f}'.format(max_dist) + '\n')
SaveMaxDist ==
    /\ ms_pc = "max"
    /\ LET r == MaxOfArgs(AllEntries(ms_matrix))
       IN  IF r.exc # "none"
           THEN ms_exc' = r.exc /\ ms_pc' = "raised" /\ ms_out' = ms_out
           ELSE ms_exc' = ms_exc /\ ms_pc' = "rows"
                /\ ms_out' = ms_out \o FormatF(r.val) \o NL
    /\ UNCHANGED <<ms_matrix, ms_appearance, ms_comment, ms_row>>
    /\ UNCHANGED <<bettiVars, boundsVars, commonVars, cloudVars, sliceVars, tempVars>>
\* one pass of `for row in range(dim)`
SaveRow ==
    /\ ms_pc = "rows"
    /\ ms_row < Len(ms_matrix)
    /\ ms_out' = ms_out \o RowText(ms_matrix, ms_row)
    /\ ms_row' = ms_row + 1
    /\ UNCHANGED <<ms_matrix, ms_appearance, ms_comment, ms_pc, ms_exc>>
    /\ UNCHANGED <<bettiVars, boundsVars, commonVars, cloudVars, sliceVars, tempVars>>
\* the row loop is over: save returns
SaveReturn ==
    /\ ms_pc = "rows"
    /\ ms_row = Len(ms_matrix)
    /\ ms_pc' = "returned"
    /\ UNCHANGED <<ms_matrix, ms_appearance, ms_comment, ms_out, ms_row, ms_exc>>
    /\ UNCHANGED <<bettiVars, boundsVars, commonVars, cloudVars, sliceVars, tempVars>>
MetricNext == SaveHeader \/ SaveMaxDist \/ SaveRow \/ SaveReturn

\* SpecMetricSave starts with the other functions idle
MetricSaveStart ==
    /\ MetricInit
    /\ TempIdle
    /\ BettiIdle
    /\ BoundsIdle
    /\ CommonIdle
    /\ CloudIdle
    /\ SliceIdle

SpecMetricSave == MetricSaveStart /\ [][MetricNext]_vars

(***************************************************************************)
(* _parse_slices                                                           *)
(***************************************************************************)
SliceA == <<"0", ".", "0", " ", "0", ".", "0", ":", " ", "1", ".", "0", " ",
            "2", ".", "0", " ", "m", "1", ",", " ", "3", ".", "0", " ", "4",
            ".", "0", " ", "m", "2">>
SliceTrailingComma == <<"1", " ", "2", ":", " ", "5", " ", "6", " ", "m", "3", ",">>
SliceEmptyBody == <<" ", "3", " ", "4", ":">>
SliceSpaceBeforeColon == <<"0", " ", "0", " ", ":", " ", "1", " ", "2", " ", "m", "1">>

WellFormedSliceLines == { SliceA, SliceTrailingComma, SliceEmptyBody }
SliceLines == WellFormedSliceLines \cup BlankLines \cup { SliceSpaceBeforeColon }

\* birth, death, mult = part.split(b' ')
\* barcode.Bar(float(birth), float(death), int(mult[1:]))
ParseBar(part) ==
    LET f == Split(part, " ")
    IN  IF Len(f) # 3 THEN [exc |-> "ValueError", val |-> <<>>]
        ELSE LET birth == ParseFloat(f[1])
                 death == ParseFloat(f[2])
                 mult  == ParseInt(From(f[3], 1))
             IN  IF birth.exc # "none" THEN [exc |-> birth.exc, val |-> <<>>]
                 ELSE IF death.exc # "none" THEN [exc |-> death.exc, val |-> <<>>]
                 ELSE IF mult.exc # "none" THEN [exc |-> mult.exc, val |-> <<>>]
                 ELSE [exc |-> "none", val |-> <<birth.val, death.val, mult.val>>]

\* a body loop that does not skip the empty parts
RECURSIVE ParseBarsNoSkip(_)
ParseBarsNoSkip(parts) ==
    IF parts = <<>> THEN [exc |-> "none", val |-> <<>>]
    ELSE LET b == ParseBar(Strip(Head(parts)))
         IN  IF b.exc # "none" THEN [exc |-> b.exc, val |-> <<>>]
             ELSE LET r == ParseBarsNoSkip(Tail(parts))
                  IN  IF r.exc # "none" THEN r
                      ELSE [exc |-> "none", val |-> <<b.val>> \o r.val]

\* for part in body.split(b','): the bars, or the first exception
RECURSIVE ParseBars(_)
ParseBars(parts) ==
    IF parts = <<>> THEN [exc |-> "none", val |-> <<>>]
    ELSE LET part == Strip(Head(parts))
         IN  IF part = <<>> THEN ParseBars(Tail(parts))
             ELSE LET b == ParseBar(part)
                  IN  IF b.exc # "none" THEN [exc |-> b.exc, val |-> <<>>]
                      ELSE LET r == ParseBars(Tail(parts))
                           IN  IF r.exc # "none" THEN r
                               ELSE [exc |-> "none", val |-> <<b.val>> \o r.val]

\* one pass of the loop body: the list after the line, or the exception
SliceStep(list, raw) ==
    LET line == Strip(raw)
    IN  IF line = <<>> THEN [exc |-> "none", val |-> list]
        ELSE LET hb == Split(line, ":")
             IN  IF Len(hb) # 2 THEN [exc |-> "ValueError", val |-> list]
                 ELSE LET ao == Split(hb[1], " ")
                 IN  IF Len(ao) # 2 THEN [exc |-> "ValueError", val |-> list]
                 ELSE LET bars == ParseBars(Split(hb[2], ","))
                          angle == ParseFloat(ao[1])
                          offset == ParseFloat(ao[2])
                 IN  IF bars.exc # "none" THEN [exc |-> bars.exc, val |-> list]
                     ELSE IF angle.exc # "none" THEN [exc |-> angle.exc, val |-> list]
                     ELSE IF offset.exc # "none" THEN [exc |-> offset.exc, val |-> list]
                     ELSE [exc |-> "none",
                           val |-> Append(list, [key |-> <<angle.val, offset.val>>,
                                                 code |-> bars.val])]

SliceInit ==
    /\ sl_text = <<>>
    /\ slices = <<>>
    /\ sl_pc = "loop"
    /\ sl_exc = "none"

ParseSliceLine ==
    /\ sl_pc = "loop"
    /\ Len(sl_text) < MaxSliceLines
    /\ \E raw \in SliceLines :
          LET r == SliceStep(slices, raw)
          IN  /\ sl_text' = Append(sl_text, raw)
              /\ slices' = r.val
              /\ sl_exc' = r.exc
              /\ sl_pc' = IF r.exc # "none" THEN "raised" ELSE "loop"
    /\ UNCHANGED <<bettiVars, boundsVars, commonVars, cloudVars, metricVars, tempVars>>
\* return slices
ReturnSlices ==
    /\ sl_pc = "loop"
    /\ sl_pc' = "returned"
    /\ UNCHANGED <<sl_text, slices, sl_exc>>
    /\ UNCHANGED <<bettiVars, boundsVars, commonVars, cloudVars, metricVars, tempVars>>
SliceNext == ParseSliceLine \/ ReturnSlices

\* SpecParseSlices starts with the other functions idle
ParseSlicesStart ==
    /\ SliceInit
    /\ TempIdle
    /\ BettiIdle
    /\ BoundsIdle
    /\ CommonIdle
    /\ CloudIdle
    /\ MetricIdle

SpecParseSlices == ParseSlicesStart /\ [][SliceNext]_vars

(***************************************************************************)
(* TempDir and the operations that stage files in it: _compute_bytes,      *)
(* barcodes, betti, bounds.  The engine, the parsers and saveable.save are *)
(* taken by their outcome: they complete or they raise.                    *)
(***************************************************************************)
StagingOps == {"_compute_bytes", "barcodes", "betti", "bounds"}

\* where an operation starts: bounds asserts on its argument before the with
FirstPc(op) == IF op = "bounds" THEN "assert" ELSE "enter"

\* the first statement of the with-body
BodyStart(op) == IF op \in {"_compute_bytes", "betti"} THEN "save" ELSE "write"

\* the file an operation stages first
StagedFile(op) ==
    CASE op = "_compute_bytes" -> "rivet_input_data.txt"
      [] op = "betti" -> "rivet-input.txt"
      [] op = "barcodes" -> "precomputed.rivet"
      [] op = "bounds" -> "precomp.rivet"

\* __enter__: os.mkdir(self.dirname)
TempDirEnter(dirs, dir) == dirs \cup {dir}

\* an __exit__ that removes the directory whatever happened
TempDirExitAlways(fs, dir, etype) ==
    [dirs |-> fs.dirs \ {dir}, files |-> { f \in fs.files : f[1] # dir }]

\* __exit__: shutil.rmtree when no exception is in flight, else the directory
\* is left; it returns None, so the exception goes on to the caller
TempDirExit(fs, dir, etype) ==
    IF etype = "none"
    THEN [dirs |-> fs.dirs \ {dir}, files |-> { f \in fs.files : f[1] # dir }]
    ELSE fs

Top == td_stack[Len(td_stack)]
Pop == SubSeq(td_stack, 1, Len(td_stack) - 1)
Fs == [dirs |-> td_dirs, files |-> td_files]

\* a caller starts one of the operations
StartOp ==
    /\ td_pc \in {"idle", "returned", "raised"}
    /\ td_count < MaxOps
    /\ \E op \in StagingOps, verify \in BOOLEAN, empty \in BOOLEAN :
          /\ verify => op = "_compute_bytes"
          /\ empty => op = "bounds" \/ verify
          /\ td_op' = op
          /\ td_verify' = verify
          /\ td_empty' = empty
          /\ td_stack' = <<[op |-> op, dir |-> 0]>>
          /\ td_pc' = FirstPc(op)
    /\ td_exc' = "none"
    /\ td_log' = <<>>
    /\ td_count' = td_count + 1
    /\ UNCHANGED <<td_dirs, td_files, td_next, td_kept>>
    /\ UNCHANGED <<bettiVars, boundsVars, commonVars, cloudVars, metricVars, sliceVars>>
\* bounds: assert len(bytes) > 0
AssertBytes ==
    /\ td_pc = "assert"
    /\ IF td_empty
       THEN /\ td_exc' = "AssertionError"
            /\ td_pc' = "unwind"
            /\ td_log' = Append(td_log, <<"raise", Top.dir>>)
       ELSE /\ td_pc' = "enter"
            /\ UNCHANGED <<td_exc, td_log>>
    /\ UNCHANGED <<td_op, td_verify, td_empty, td_stack, td_dirs, td_files,
                   td_next, td_count, td_kept>>
    /\ UNCHANGED <<bettiVars, boundsVars, commonVars, cloudVars, metricVars, sliceVars>>
\* with TempDir() as dir
Enter ==
    /\ td_pc = "enter"
    /\ td_dirs' = TempDirEnter(td_dirs, td_next)
    /\ td_stack' = [td_stack EXCEPT ![Len(td_stack)].dir = td_next]
    /\ td_next' = td_next + 1
    /\ td_log' = Append(td_log, <<"mkdir", td_next>>)
    /\ td_pc' = BodyStart(Top.op)
    /\ UNCHANGED <<td_op, td_verify, td_empty, td_files, td_exc, td_count, td_kept>>
    /\ UNCHANGED <<bettiVars, boundsVars, commonVars, cloudVars, metricVars, sliceVars>>
\* with open(name, 'w') as f: saveable.save(f)
Save ==
    /\ td_pc = "save"
    /\ td_files' = td_files \cup {<<Top.dir, StagedFile(Top.op)>>}
    /\ \E ok \in BOOLEAN :
          IF ok
          THEN /\ td_pc' = "engine"
               /\ td_exc' = td_exc
               /\ td_log' = Append(td_log, <<"write", Top.dir>>)
          ELSE /\ td_pc' = "unwind"
               /\ td_exc' = "TypeError"
               /\ td_log' = td_log \o <<<<"write", Top.dir>>, <<"raise", Top.dir>>>>
    /\ UNCHANGED <<td_op, td_verify, td_empty, td_stack, td_dirs, td_next,
                   td_count, td_kept>>
    /\ UNCHANGED <<bettiVars, boundsVars, commonVars, cloudVars, metricVars, sliceVars>>
\* barcodes, bounds: the precomputed bytes are written
WritePrecomp ==
    /\ td_pc = "write"
    /\ td_files' = td_files \cup {<<Top.dir, StagedFile(Top.op)>>}
    /\ td_log' = Append(td_log, <<"write", Top.dir>>)
    /\ td_pc' = IF Top.op = "barcodes" THEN "write2" ELSE "engine"
    /\ UNCHANGED <<td_op, td_verify, td_empty, td_stack, td_dirs, td_exc,
                   td_next, td_count, td_kept>>
    /\ UNCHANGED <<bettiVars, boundsVars, commonVars, cloudVars, metricVars, sliceVars>>
\* barcodes: the slices are written
WriteSlices ==
    /\ td_pc = "write2"
    /\ td_files' = td_files \cup {<<Top.dir, "slices.txt">>}
    /\ td_log' = Append(td_log, <<"write", Top.dir>>)
    /\ td_pc' = "engine"
    /\ UNCHANGED <<td_op, td_verify, td_empty, td_stack, td_dirs, td_exc,
                   td_next, td_count, td_kept>>
    /\ UNCHANGED <<bettiVars, boundsVars, commonVars, cloudVars, metricVars, sliceVars>>
\* subprocess.check_output: the engine runs once; a non-zero exit raises
RunEngine ==
    /\ td_pc = "engine"
    /\ \E ok \in BOOLEAN :
          IF ok
          THEN /\ td_pc' = IF Top.op = "_compute_bytes" THEN "read" ELSE "parse"
               /\ td_files' = IF Top.op = "_compute_bytes"
                              THEN td_files \cup {<<Top.dir, "output.rivet">>}
                              ELSE td_files
               /\ td_exc' = td_exc
               /\ td_log' = Append(td_log, <<"run", Top.dir>>)
          ELSE /\ td_pc' = "unwind"
               /\ td_files' = td_files
               /\ td_exc' = "CalledProcessError"
               /\ td_log' = td_log \o <<<<"run", Top.dir>>, <<"raise", Top.dir>>>>
    /\ UNCHANGED <<td_op, td_verify, td_empty, td_stack, td_dirs, td_next,
                   td_count, td_kept>>
    /\ UNCHANGED <<bettiVars, boundsVars, commonVars, cloudVars, metricVars, sliceVars>>
\* _compute_bytes: the output file is read; if verify: assert bounds(output)
ReadOutput ==
    /\ td_pc = "read"
    /\ td_pc' = IF td_verify THEN "verify" ELSE "exit"
    /\ UNCHANGED <<td_op, td_verify, td_empty, td_stack, td_dirs, td_files,
                   td_exc, td_next, td_count, td_log, td_kept>>
    /\ UNCHANGED <<bettiVars, boundsVars, commonVars, cloudVars, metricVars, sliceVars>>
\* the call bounds(output) inside _compute_bytes
CallBounds ==
    /\ td_pc = "verify"
    /\ td_stack' = Append(td_stack, [op |-> "bounds", dir |-> 0])
    /\ td_pc' = FirstPc("bounds")
    /\ UNCHANGED <<td_op, td_verify, td_empty, td_dirs, td_files, td_exc,
                   td_next, td_count, td_log, td_kept>>
    /\ UNCHANGED <<bettiVars, boundsVars, commonVars, cloudVars, metricVars, sliceVars>>
\* _parse_slices, _parse_betti, parse_bounds on the engine's output
ParseOutput ==
    /\ td_pc = "parse"
    /\ \E ok \in BOOLEAN :
          IF ok
          THEN td_pc' = "exit" /\ UNCHANGED <<td_exc, td_log>>
          ELSE /\ td_pc' = "unwind"
               /\ td_exc' = "ValueError"
               /\ td_log' = Append(td_log, <<"raise", Top.dir>>)
    /\ UNCHANGED <<td_op, td_verify, td_empty, td_stack, td_dirs, td_files,
                   td_next, td_count, td_kept>>
    /\ UNCHANGED <<bettiVars, boundsVars, commonVars, cloudVars, metricVars, sliceVars>>
\* the with-body is over: __exit__(None, None, None), then the return.  A
\* return into _compute_bytes passes its assert (a Bounds is true) and
\* reaches the end of that body.
ExitReturn ==
    /\ td_pc = "exit"
    /\ LET fs == TempDirExit(Fs, Top.dir, "none")
       IN  td_dirs' = fs.dirs /\ td_files' = fs.files
    /\ td_log' = Append(td_log, <<"exit_ok", Top.dir>>)
    /\ td_stack' = Pop
    /\ td_pc' = IF Pop = <<>> THEN "returned" ELSE "exit"
    /\ UNCHANGED <<td_op, td_verify, td_empty, td_exc, td_next, td_count, td_kept>>
    /\ UNCHANGED <<bettiVars, boundsVars, commonVars, cloudVars, metricVars, sliceVars>>
\* the exception leaves one frame: __exit__(etype, ...) if its with-block was
\* entered, then on to the caller
Unwind ==
    /\ td_pc = "unwind"
    /\ IF Top.dir # 0
       THEN /\ LET fs == TempDirExit(Fs, Top.dir, td_exc)
               IN  td_dirs' = fs.dirs /\ td_files' = fs.files
            /\ td_log' = Append(td_log, <<"exit_err", Top.dir>>)
            /\ td_kept' = td_kept \cup {Top.dir}
       ELSE UNCHANGED <<td_dirs, td_files, td_log, td_kept>>
    /\ td_stack' = Pop
    /\ td_pc' = IF Pop = <<>> THEN "raised" ELSE "unwind"
    /\ UNCHANGED <<td_op, td_verify, td_empty, td_exc, td_next, td_count>>
    /\ UNCHANGED <<bettiVars, boundsVars, commonVars, cloudVars, metricVars, sliceVars>>
TempNext ==
    \/ StartOp \/ AssertBytes \/ Enter \/ Save \/ WritePrecomp \/ WriteSlices
    \/ RunEngine \/ ReadOutput \/ CallBounds \/ ParseOutput \/ ExitReturn
    \/ Unwind

\* SpecTempDir starts with the other functions idle
TempDirStart ==
    /\ TempIdle
    /\ BettiIdle
    /\ BoundsIdle
    /\ CommonIdle
    /\ CloudIdle
    /\ MetricIdle
    /\ SliceIdle

SpecTempDir == TempDirStart /\ [][TempNext]_vars

(***************************************************************************)
(* Claims about _parse_betti                                               *)
(***************************************************************************)
BettiExample ==
    << KwXGrades, <<"1", "/", "2">>, <<"1">>, <<>>,
       KwYGrades, <<"1">>, <<"2">>, <<>>,
       XiHeader(0), <<"(", "0", ",", "0", ",", "1", ")">>, <<>> >>

\* C1: on a text made of well-formed sections (header, data lines, blank
\* line) in any order, the parse does not fail and returns, per list, exactly
\* the data lines of that list's sections in input order (empty when the
\* section never appears); the example text of the specification gives
\* x_grades = [1/2, 1], y_grades = [1, 2], xi_0 = [(0,0,1)], xi_1 = xi_2 = [].
ThmC1_SectionsCollected ==
    /\ g_sect # "bad" => b_exc = "none"
    /\ b_pc = "returned" /\ g_sect = "out" =>
           x_grades = g_x /\ y_grades = g_y /\ xi = g_xi
    /\ b_n = 0 =>
           LET r == BettiRun(BettiLocalsAtStart, BettiExample)
           IN  /\ r.exc = "none"
               /\ r.x_grades = << <<1, 2>>, <<1, 1>> >>
               /\ r.y_grades = << <<1, 1>>, <<2, 1>> >>
               /\ r.xi = << << <<0, 0, 1>> >>, <<>>, <<>> >>

WitC1_TwoSectionsReturned ==
    /\ b_pc = "returned" /\ g_sect = "out"
    /\ g_x # <<>> /\ g_xi[1] # <<>>
    /\ x_grades = g_x /\ xi = g_xi

ReadsLine == b_pc = "loop" /\ b_n' = b_n + 1

\* C9: in every parser state, reading 'xi_N' (N in 0..2) makes xi[N] the
\* current xi list, appends nothing to a grade list and does not fail.
OrigC9_XiHeaderSelectsInEveryState ==
    [][ReadsLine /\ Strip(b_line') \in {XiHeader(0), XiHeader(1), XiHeader(2)} =>
           /\ b_exc' = "none"
           /\ current_xi' = DigitVal(Strip(b_line')[4])
           /\ x_grades' = x_grades /\ y_grades' = y_grades]_vars

NoList == current_grades = "none" /\ current_xi = -1

BlankResets == Strip(b_line') = <<>> => current_grades' = "none" /\ current_xi' = -1

Ignored ==
    /\ b_exc' = "none"
    /\ UNCHANGED <<x_grades, y_grades, xi, current_grades, current_xi>>

\* C10 as stated: a blank line resets both pointers, and while no list is
\* current every line other than a blank line or an 'x-grades', 'y-grades',
\* 'xi_N' header is ignored: no error, lists and pointers unchanged.
OrigC10_EveryOtherLineIgnored ==
    [][ReadsLine =>
           /\ BlankResets
           /\ NoList /\ Strip(b_line') \notin HeaderLines \cup {<<>>} => Ignored]_vars

\* C10 amended: the same, for every other line that does not start with 'xi_'.
ThmC10_OtherLinesNotXiIgnored ==
    [][ReadsLine =>
           /\ BlankResets
           /\ NoList /\ Strip(b_line') \notin HeaderLines \cup {<<>>}
                 /\ ~StartsWith(Strip(b_line'), KwXi) => Ignored]_vars

WitC10_JunkAfterSection ==
    /\ b_pc = "loop" /\ b_n >= 4 /\ b_line = <<"j", "u", "n", "k">>
    /\ NoList /\ x_grades # <<>> /\ b_exc = "none"

(***************************************************************************)
(* Claims about parse_bounds                                               *)
(***************************************************************************)
SetMax(S) == CHOOSE m \in S : \A e \in S : e <= m
SetMin(S) == CHOOSE m \in S : \A e \in S : m <= e

LinesWith(text, kw) == { i \in 1..Len(text) : StartsWith(Strip(text[i]), kw) }

\* the corner the claim names: from the last line with the prefix, else (0,0)
LastCorner(text, kw, k) ==
    IF LinesWith(text, kw) = {} THEN <<<<0, 1>>, <<0, 1>>>>
    ELSE ParseCorner(Strip(text[SetMax(LinesWith(text, kw))]), k).val

\* C2: the Bounds returned has as lower_left the value of the last 'low:'
\* line and as upper_right that of the last 'high:' line, whatever their order
\* and the lines between; a missing prefix gives (0,0); the two lines
\* 'low: 1.0,2.0', 'high: 3.0,4.0' give ((1,2),(3,4)) and no line ((0,0),(0,0)).
ThmC2_LastLowLastHigh ==
    pb_pc = "returned" =>
        /\ pb_result.lower_left = LastCorner(pb_text, KwLow, 5)
        /\ pb_result.upper_right = LastCorner(pb_text, KwHigh, 6)
        /\ pb_text = <<LowA, HighA>> =>
              pb_result = [lower_left |-> <<<<1, 1>>, <<2, 1>>>>,
                           upper_right |-> <<<<3, 1>>, <<4, 1>>>>]
        /\ pb_text = <<>> =>
              pb_result = [lower_left |-> <<<<0, 1>>, <<0, 1>>>>,
                           upper_right |-> <<<<0, 1>>, <<0, 1>>>>]

WitC2_RepeatedLowAroundHigh ==
    /\ pb_pc = "returned"
    /\ pb_text = <<LowA, HighB, <<"j", "u", "n", "k">>, LowB>>
    /\ pb_result.lower_left = <<<<5, 1>>, <<6, 1>>>>
    /\ pb_result.upper_right = <<<<7, 1>>, <<17, 2>>>>

(***************************************************************************)
(* Claims about Bounds.common_bounds                                       *)
(***************************************************************************)
Corners(b) == <<b.lower_left[1], b.lower_left[2], b.upper_right[1], b.upper_right[2]>>

\* C3: a.common_bounds(b) and b.common_bounds(a) have the same corners, the
\* lower left being the coordinate-wise minimum and the upper right the
\* coordinate-wise maximum of the operands' corners; chaining with a third
\* Bounds gives the same corners in either grouping; the calls leave the
\* corners of a and b as they were.
ThmC3_CommonBoundsAlgebra ==
    /\ cb_pc \in {"ab", "ba", "done"} =>
          /\ cb_a = cb_a0 /\ cb_b = cb_b0
          /\ Corners(cb_ab) =
                <<SetMin({cb_a0.lower_left[1], cb_b0.lower_left[1]}),
                  SetMin({cb_a0.lower_left[2], cb_b0.lower_left[2]}),
                  SetMax({cb_a0.upper_right[1], cb_b0.upper_right[1]}),
                  SetMax({cb_a0.upper_right[2], cb_b0.upper_right[2]})>>
    /\ cb_pc \in {"ba", "done"} => Corners(cb_ab) = Corners(cb_ba)
    /\ cb_pc = "done" => Corners(cb_l) = Corners(cb_r)

WitC3_ChainOfDistinctBounds ==
    /\ cb_pc = "done"
    /\ cb_a0 # cb_b0 /\ cb_c # cb_a0 /\ cb_c # cb_b0
    /\ cb_ab # cb_a0 /\ cb_ab # cb_b0 /\ cb_l # cb_ab
    /\ cb_l = cb_r

(***************************************************************************)
(* Claims about PointCloud                                                 *)
(***************************************************************************)
Mixed(points) ==
    \E i, j \in 1..Len(points) : Dimension(points[i]) # Dimension(points[j])

\* C4: a list whose points do not all have the same dimension is refused with
\* a ValueError naming the smallest position (counted from 0) whose point's
\* dimension differs; a list whose points all have the same dimension never
\* gets that error.
ThmC4_DimensionMismatchRefused ==
    pc_pc # "new" =>
        IF Mixed(pc_points)
        THEN /\ pc_pc = "raised" /\ pc_exc = "ValueError"
             /\ pc_msg[2] + 1 =
                   SetMin({ i \in 1..Len(pc_points) :
                              Dimension(pc_points[i]) # Dimension(pc_points[1]) })
        ELSE pc_exc # "ValueError"

WitC4_SecondOfThreeDiffers ==
    /\ pc_pc = "raised" /\ pc_exc = "ValueError"
    /\ Len(pc_points) = 3
    /\ Dimension(pc_points[1]) = 1
    /\ Dimension(pc_points[2]) = 0 /\ Dimension(pc_points[3]) = 0
    /\ pc_msg = <<1, 1, 0>>

CoordSet(points) == { AllCoords(points)[i] : i \in 1..Len(AllCoords(points)) }

\* C5: after construction max_dist is the value supplied, zero included; with
\* none supplied it is the maximum coordinate minus the minimum coordinate,
\* the lower bound starting at 0, whatever the signs of the coordinates.
OrigC5_SuppliedOrSpan ==
    pc_pc = "constructed" =>
        /\ pc_arg # <<>> => pc_max_dist = pc_arg[1]
        /\ pc_arg = <<>> /\ CoordSet(pc_points) # {} =>
              pc_max_dist = SetMax(CoordSet(pc_points))
                              - SetMin(CoordSet(pc_points) \cup {0})

(***************************************************************************)
(* Claims about MetricSpace.save                                           *)
(***************************************************************************)
EntrySet(m) == { m[i][j] : i \in 1..Len(m), j \in 1..Len(m) }

\* the lines the claim lists, as the pieces of the stream between newlines
\* (the piece after the last newline is empty)
ExpectedMetricLines(m) ==
    << <<"m", "e", "t", "r", "i", "c">>,
       <<"n", "o", " ", "f", "u", "n", "c", "t", "i", "o", "n">>,
       IntToStr(Len(m)), DistanceLabel, FormatF(SetMax(EntrySet(m))) >>
    \o [r \in 1..Len(m) |->
           Concat([k \in 1..(Len(m) - r) |-> FormatF(m[r][r + k]) \o <<" ">>])]
    \o << <<>> >>

\* C6: for every n-by-n matrix with n >= 1, no appearance values and no
\* comment, save completes and the stream holds 'metric', 'no function', n,
\* the distance label, the maximum of all entries, then n row lines, row r
\* holding the entries right of the diagonal in column order (the last row
\* empty).
OrigC6_SaveWritesUpperTriangle ==
    /\ ms_pc \in {"returned", "raised"}
    /\ Len(ms_matrix) >= 1 /\ ms_appearance = <<>> /\ ms_comment = <<>>
    => /\ ms_pc = "returned"
       /\ Split(ms_out, "\n") = ExpectedMetricLines(ms_matrix)

(***************************************************************************)
(* Claims about _parse_slices                                              *)
(***************************************************************************)
NonBlank(raw) == Strip(raw) # <<>>

\* what each well-formed line of SliceLines says, read by hand
ExpectedSlice(raw) ==
    CASE raw = SliceA ->
            [key |-> <<<<0, 1>>, <<0, 1>>>>,
             code |-> << <<<<1, 1>>, <<2, 1>>, 1>>, <<<<3, 1>>, <<4, 1>>, 2>> >>]
      [] raw = SliceTrailingComma ->
            [key |-> <<<<1, 1>>, <<2, 1>>>>,
             code |-> << <<<<5, 1>>, <<6, 1>>, 3>> >>]
      [] raw = SliceEmptyBody ->
            [key |-> <<<<3, 1>>, <<4, 1>>>>, code |-> <<>>]

WellFormedText(text) ==
    \A i \in 1..Len(text) : text[i] \in WellFormedSliceLines \cup BlankLines

\* C7: on well-formed lines, blank lines anywhere, the parse does not fail and
\* returns one ((angle, offset), Barcode) pair per non-blank line, in input
\* order, each Barcode holding one Bar per non-empty token of the body in
\* token order: a trailing comma adds no bar, an empty body gives no bar.
ThmC7_OnePairPerNonBlankLine ==
    WellFormedText(sl_text) =>
        /\ sl_exc = "none"
        /\ LET lines == SelectSeq(sl_text, NonBlank)
           IN  slices = [i \in 1..Len(lines) |-> ExpectedSlice(lines[i])]

WitC7_BlankBetweenSlices ==
    /\ sl_pc = "returned"
    /\ sl_text = <<SliceTrailingComma, <<" ", " ">>, SliceA, SliceEmptyBody>>
    /\ Len(slices) = 3
    /\ Len(slices[1].code) = 1 /\ Len(slices[2].code) = 2 /\ slices[3].code = <<>>

(***************************************************************************)
(* Claims about TempDir                                                    *)
(***************************************************************************)
Events(kind) == { i \in 1..Len(td_log) : td_log[i][1] = kind }
DirsOf(kind) == { td_log[i][2] : i \in Events(kind) }

\* C8: in every staging operation the directory is made before a file is
\* staged in it or the engine is run on it; an operation that completes has
\* removed its directory when it returns; an operation that fails inside the
\* with-block leaves its directory (then and later) and its exception reaches
\* the caller, the engine having run at most once per directory and nothing
\* being staged or run after the failure.
ThmC8_StagingDirectoryLifecycle ==
    /\ \A i \in Events("write") \cup Events("run") :
          /\ \E j \in 1..(i - 1) : td_log[j] = <<"mkdir", td_log[i][2]>>
          /\ \A j \in 1..(i - 1) : td_log[j][1] \notin {"exit_ok", "exit_err", "raise"}
                                     \/ td_log[j][2] # td_log[i][2]
    /\ \A i, j \in Events("run") : td_log[i][2] = td_log[j][2] => i = j
    /\ \A i \in Events("raise") :
          \A j \in (i + 1)..Len(td_log) : td_log[j][1] = "exit_err"
    /\ DirsOf("exit_ok") \cap td_dirs = {}
    /\ DirsOf("exit_err") \subseteq td_dirs
    /\ td_kept \subseteq td_dirs
    /\ td_pc = "returned" =>
          /\ td_exc = "none"
          /\ DirsOf("mkdir") = DirsOf("exit_ok")
          /\ \A f \in td_files : f[1] \in td_kept
    /\ td_pc = "raised" =>
          /\ td_exc # "none"
          /\ DirsOf("mkdir") = DirsOf("exit_err")

WitC8_VerifyFailsAfterASuccess ==
    /\ td_pc = "raised" /\ td_count = 2
    /\ td_op = "_compute_bytes" /\ td_verify
    /\ td_exc = "ValueError"
    /\ td_dirs = {2, 3} /\ td_kept = {2, 3}

====
